---- MODULE Spec2Model ----
(***************************************************************************)
(* Item-based collaborative filtering engine of movie_recommendations.py:  *)
(* the rating store built by Movie_Recommendations.__init__, the memoized  *)
(* movie similarity (Movie.get_similarity / Movie.compute_similarity) and  *)
(* the prediction calls (predict_rating, predict_ratings).                 *)
(*                                                                         *)
(* Numbers: the program computes with Python floats.  The model computes   *)
(* the same expressions, operation by operation, in exact rational         *)
(* arithmetic: a number is a pair <<n, d>> in lowest terms with d > 0.     *)
(***************************************************************************)
EXTENDS Integers, Sequences, FiniteSets, TLC

\* ------------------------------------------------------------------------
\* Bounds of the model
\* ------------------------------------------------------------------------
\* ratings in the training file of an engine that answers calls
MaxRatings == 5
\* records read by the constructor's loop when the loop itself is explored
MaxRecords == 3
\* records in a probe file
MaxProbes == 1

\* user ids that occur in training records
UserIds == {1, 2}
\* movie ids of the catalog file
CatalogIds == {1, 2, 3}
\* ids a record or a caller may name: the known ones and one more, so that
\* an unknown user and an unknown movie occur
QueryUsers == UserIds \cup {3}
QueryMovies == CatalogIds \cup {4}

\* ------------------------------------------------------------------------
\* Exact rational arithmetic (the float operators +, -, *, /, abs, !=)
\* ------------------------------------------------------------------------
Abs(i) == IF i < 0 THEN -i ELSE i

RECURSIVE Gcd(_, _)
Gcd(a, b) == IF b = 0 THEN a ELSE Gcd(b, a % b)

Norm(n, d) ==
    LET s == IF d < 0 THEN -1 ELSE 1
        g == Gcd(Abs(n), Abs(d))
    IN  <<(s * n) \div g, (s * d) \div g>>

RInt(i) == <<i, 1>>
RAdd(x, y) == Norm(x[1] * y[2] + y[1] * x[2], x[2] * y[2])
RSub(x, y) == Norm(x[1] * y[2] - y[1] * x[2], x[2] * y[2])
RMul(x, y) == Norm(x[1] * y[1], x[2] * y[2])
RDiv(x, y) == Norm(x[1] * y[2], x[2] * y[1])
RAbs(x) == <<Abs(x[1]), x[2]>>
RLeq(x, y) == x[1] * y[2] <= y[1] * x[2]

\* the rating values a training record may carry: 0.5 and 5.0, the two ends
\* of the half-star scale
RatingVals == {<<1, 2>>, <<5, 1>>}
\* the "actual rating" column of a probe record
ActualVals == {<<3, 1>>}

\* the literals of the program
SimilarityScale == <<9, 2>>
NoEvidence == RInt(0)
DefaultRating == <<5, 2>>

\* ------------------------------------------------------------------------
\* State
\* ------------------------------------------------------------------------
VARIABLES
    pc,            \* "loading" | "ready" | "failed": where the constructor is
    movie_dict,    \* the ids of the catalog (the keys of self.movie_dict)
    user_dict,     \* user id -> (movie id -> rating)
    users,         \* movie id -> Movie.users, the list of raters
    similarities,  \* movie id -> Movie.similarities, other id -> score
    scans          \* {self, other} -> executions of compute_similarity on the pair

vars == <<pc, movie_dict, user_dict, users, similarities, scans>>

\* the empty dict
EmptyDict == [x \in {} |-> 0]
\* d[k] = v on a dict
PutFresh(d, k, v) == [x \in {k} |-> v]
Put(d, k, v) == [x \in (DOMAIN d) \cup {k} |-> IF x = k THEN v ELSE d[x]]

\* str(Movie): the title read from the catalog row of the movie
Title(m) == <<"title", m>>

\* the unordered pairs of movies, a movie with itself included
Pairs(S) == {{a, b} : a \in S, b \in S}

\* outcomes of a call
Returned(v) == [kind |-> "value", val |-> v]
Raised(e) == [kind |-> e, val |-> <<>>]

\* ------------------------------------------------------------------------
\* Movie_Recommendations.__init__: the loop over the training records
\* ------------------------------------------------------------------------
\* one iteration on the record (u, m, r), from the store st = [ud, us, ok]
LoadRecord(st, md, u, m, r) ==
    LET ud0 == IF u \notin DOMAIN st.ud THEN Put(st.ud, u, EmptyDict) ELSE st.ud
        ud1 == [ud0 EXCEPT ![u] = Put(@, m, r)]
    IN  IF m \in md
        THEN [ud |-> ud1, us |-> [st.us EXCEPT ![m] = Append(@, u)], ok |-> TRUE]
        ELSE [ud |-> ud1, us |-> st.us, ok |-> FALSE]

EmptyStore(md) == [ud |-> EmptyDict, us |-> [m \in md |-> <<>>], ok |-> TRUE]

\* the whole loop on a sequence of records; it stops at the first KeyError
RECURSIVE LoadAll(_, _, _)
LoadAll(st, md, recs) ==
    IF recs = <<>> \/ ~st.ok THEN st
    ELSE LoadAll(LoadRecord(st, md, recs[1][1], recs[1][2], recs[1][3]), md, Tail(recs))

\* number of records read so far without error
RECURSIVE SumLen(_, _)
SumLen(us, S) ==
    IF S = {} THEN 0
    ELSE LET m == CHOOSE x \in S : TRUE IN Len(us[m]) + SumLen(us, S \ {m})

\* ------------------------------------------------------------------------
\* Movie.compute_similarity
\* ------------------------------------------------------------------------
SignedDiff(r1, r2) == RSub(r1, r2)
AbsDiff(r1, r2) == RAbs(RSub(r1, r2))

RECURSIVE SumDiffs(_, _, _, _)
SumDiffs(S, self, other, ud) ==
    IF S = {} THEN RInt(0)
    ELSE LET u == CHOOSE x \in S : TRUE
         IN  RAdd(AbsDiff(ud[u][self], ud[u][other]),
                  SumDiffs(S \ {u}, self, other, ud))

CoRaters(self, other, ud) ==
    {u \in DOMAIN ud : self \in DOMAIN ud[u] /\ other \in DOMAIN ud[u]}

ScaleCoarse(avg_difference) == RSub(RInt(1), RDiv(avg_difference, RInt(4)))
Scale(avg_difference) == RSub(RInt(1), RDiv(avg_difference, SimilarityScale))

compute_similarity(self, other, ud) ==
    LET co == CoRaters(self, other, ud)
        num_of_ratings == Cardinality(co)
        abs_diff_of_ratings == SumDiffs(co, self, other, ud)
    IN  IF num_of_ratings # 0
        THEN Scale(RDiv(abs_diff_of_ratings, RInt(num_of_ratings)))
        ELSE NoEvidence

\* ------------------------------------------------------------------------
\* Movie.get_similarity, called on the movie self
\* ------------------------------------------------------------------------
StoreOneSided(sims, self, other, v) == [sims EXCEPT ![self] = Put(@, other, v)]
StoreOverwriting(sims, self, other, v) ==
    LET s1 == [sims EXCEPT ![self] = PutFresh(@, other, v)]
    IN  [s1 EXCEPT ![other] = Put(@, self, v)]
StoreBoth(sims, self, other, v) ==
    LET s1 == [sims EXCEPT ![self] = Put(@, other, v)]
    IN  [s1 EXCEPT ![other] = Put(@, self, v)]

UnknownMovieIgnored(other_movie_id, md) == FALSE
UnknownMovie(other_movie_id, md) == other_movie_id \notin md

NeverCached(sims, self, other_movie_id) == FALSE
Cached(sims, self, other_movie_id) == other_movie_id \in DOMAIN sims[self]

get_similarity(self, other, md, ud, sims, sc) ==
    IF UnknownMovie(other, md)
    THEN [out |-> Raised("BadInputError"), sims |-> sims, sc |-> sc]
    ELSE IF Cached(sims, self, other)
    THEN [out |-> Returned(sims[self][other]), sims |-> sims, sc |-> sc]
    ELSE LET similarity == compute_similarity(self, other, ud)
         IN  [out |-> Returned(similarity),
              sims |-> StoreBoth(sims, self, other, similarity),
              sc |-> [sc EXCEPT ![{self, other}] = @ + 1]]

\* ------------------------------------------------------------------------
\* Movie_Recommendations.predict_rating
\* ------------------------------------------------------------------------
\* the loop over the user's ratings; every key is a catalog movie, because
\* the constructor fails on a record whose movie is not in the catalog.
\* An exception of get_similarity leaves the loop.
RECURSIVE PredictLoop(_, _, _, _, _, _)
PredictLoop(keys, ratings, movie_id, md, ud, acc) ==
    IF keys = {} \/ acc.raised THEN acc
    ELSE LET key == CHOOSE k \in keys : TRUE
             g == get_similarity(key, movie_id, md, ud, acc.sims, acc.sc)
             similarity == g.out.val
         IN  IF g.out.kind # "value"
             THEN [acc EXCEPT !.raised = TRUE]
             ELSE PredictLoop(keys \ {key}, ratings, movie_id, md, ud,
                     [total |-> RAdd(acc.total, RMul(similarity, ratings[key])),
                      sum_of_similarities |-> RAdd(acc.sum_of_similarities, similarity),
                      sims |-> g.sims, sc |-> g.sc, raised |-> FALSE])

Undivided(total, sum_of_similarities) ==
    IF sum_of_similarities # RInt(0) THEN total ELSE DefaultRating
WeightedAverage(total, sum_of_similarities) ==
    IF sum_of_similarities # RInt(0)
    THEN RDiv(total, sum_of_similarities)
    ELSE DefaultRating

NeverRated(ratings, movie_id) == FALSE
AlreadyRated(ratings, movie_id) == movie_id \in DOMAIN ratings

predict_rating(user_id, movie_id, md, ud, sims, sc) ==
    IF user_id \notin DOMAIN ud \/ movie_id \notin md
    THEN [out |-> Raised("BadInputError"), sims |-> sims, sc |-> sc]
    ELSE LET ratings == ud[user_id]
         IN  IF AlreadyRated(ratings, movie_id)
             THEN [out |-> Returned(ratings[movie_id]), sims |-> sims, sc |-> sc]
             ELSE LET acc == PredictLoop(DOMAIN ratings, ratings, movie_id, md, ud,
                                 [total |-> RInt(0), sum_of_similarities |-> RInt(0),
                                  sims |-> sims, sc |-> sc, raised |-> FALSE])
                  IN  IF acc.raised
                      THEN [out |-> Raised("BadInputError"),
                            sims |-> acc.sims, sc |-> acc.sc]
                      ELSE [out |-> Returned(WeightedAverage(acc.total,
                                                           acc.sum_of_similarities)),
                            sims |-> acc.sims, sc |-> acc.sc]

\* ------------------------------------------------------------------------
\* Movie_Recommendations.predict_ratings: the loop over the probe records
\* ------------------------------------------------------------------------
\* the title of the record's movie is looked up in movie_dict before
\* predict_rating is called: a movie outside the catalog raises KeyError
RECURSIVE PredictRatingsLoop(_, _, _, _, _, _)
PredictRatingsLoop(lines, movie_tuples_lst, md, ud, sims, sc) ==
    IF lines = <<>>
    THEN [out |-> [kind |-> "list", val |-> movie_tuples_lst], sims |-> sims, sc |-> sc]
    ELSE LET user_id == lines[1][1]
             mov_id == lines[1][2]
             mov_rating == lines[1][3]
         IN  IF mov_id \notin md
             THEN [out |-> Raised("KeyError"), sims |-> sims, sc |-> sc]
             ELSE LET p == predict_rating(user_id, mov_id, md, ud, sims, sc)
                  IN  IF p.out.kind # "value"
                      THEN p
                      ELSE PredictRatingsLoop(Tail(lines),
                               Append(movie_tuples_lst,
                                      <<user_id, Title(mov_id), p.out.val, mov_rating>>),
                               md, ud, p.sims, p.sc)

predict_ratings(lines, md, ud, sims, sc) ==
    PredictRatingsLoop(lines, <<>>, md, ud, sims, sc)

\* ------------------------------------------------------------------------
\* Inputs
\* ------------------------------------------------------------------------
Unrated == <<0, 1>>

\* the training records of a rating matrix, user by user and movie by movie
RECURSIVE RecordsOf(_, _)
RecordsOf(matrix, cells) ==
    IF cells = <<>> THEN <<>>
    ELSE LET c == cells[1]
         IN  IF matrix[c] = Unrated
             THEN RecordsOf(matrix, Tail(cells))
             ELSE <<<<c[1], c[2], matrix[c]>>>> \o RecordsOf(matrix, Tail(cells))

RECURSIVE InOrder(_)
InOrder(S) ==
    IF S = {} THEN <<>>
    ELSE LET c == CHOOSE x \in S : \A y \in S :
                      x[1] < y[1] \/ (x[1] = y[1] /\ x[2] <= y[2])
         IN  <<c>> \o InOrder(S \ {c})

Cells == InOrder(UserIds \X CatalogIds)

Matrices ==
    {mx \in [UserIds \X CatalogIds -> RatingVals \cup {Unrated}] :
        Cardinality({c \in UserIds \X CatalogIds : mx[c] # Unrated}) <= MaxRatings}

ProbeRecords == QueryUsers \X QueryMovies \X ActualVals
ProbeFiles == UNION {[1 .. n -> ProbeRecords] : n \in 0 .. MaxProbes}

\* ------------------------------------------------------------------------
\* The engine after construction, and the calls of its caller
\* ------------------------------------------------------------------------
Init ==
    /\ pc = "ready"
    /\ movie_dict = CatalogIds
    /\ \E mx \in Matrices :
          LET st == LoadAll(EmptyStore(CatalogIds), CatalogIds, RecordsOf(mx, Cells))
          IN  /\ user_dict = st.ud
              /\ users = st.us
    /\ similarities = [m \in CatalogIds |-> EmptyDict]
    /\ scans = [p \in Pairs(CatalogIds) |-> 0]
Finish(r) ==
    /\ similarities' = r.sims
    /\ scans' = r.sc
    /\ UNCHANGED <<pc, movie_dict, user_dict, users>>

PredictRatingCall(u, m) ==
    /\ pc = "ready"
    /\ Finish(predict_rating(u, m, movie_dict, user_dict, similarities, scans))

GetSimilarityCall(self, other) ==
    /\ pc = "ready"
    /\ Finish(get_similarity(self, other, movie_dict, user_dict, similarities, scans))

PredictRatingsCall(lines) ==
    /\ pc = "ready"
    /\ Finish(predict_ratings(lines, movie_dict, user_dict, similarities, scans))

Next ==
    \/ \E u \in QueryUsers, m \in QueryMovies : PredictRatingCall(u, m)
    \/ \E self \in movie_dict, other \in QueryMovies : GetSimilarityCall(self, other)
    \/ \E lines \in ProbeFiles : PredictRatingsCall(lines)

Spec == Init /\ [][Next]_vars

\* ------------------------------------------------------------------------
\* The constructor's loop over the training file, record by record
\* ------------------------------------------------------------------------
InitLoad ==
    /\ pc = "loading"
    /\ movie_dict = CatalogIds
    /\ user_dict = EmptyStore(CatalogIds).ud
    /\ users = EmptyStore(CatalogIds).us
    /\ similarities = [m \in CatalogIds |-> EmptyDict]
    /\ scans = [p \in Pairs(CatalogIds) |-> 0]

\* one line of the file; a movie id outside the catalog ends the
\* constructor with KeyError, after the user's dict was written
LoadRating(u, m, r) ==
    /\ pc = "loading"
    /\ SumLen(users, movie_dict) < MaxRecords
    /\ LET st == LoadRecord([ud |-> user_dict, us |-> users, ok |-> TRUE],
                            movie_dict, u, m, r)
       IN  /\ user_dict' = st.ud
           /\ users' = st.us
           /\ pc' = IF st.ok THEN "loading" ELSE "failed"
    /\ UNCHANGED <<movie_dict, similarities, scans>>

\* the end of the file
LoadDone ==
    /\ pc = "loading"
    /\ pc' = "ready"
    /\ UNCHANGED <<movie_dict, user_dict, users, similarities, scans>>

NextLoad ==
    \/ \E u \in UserIds, m \in QueryMovies, r \in RatingVals : LoadRating(u, m, r)
    \/ LoadDone

SpecLoad == InitLoad /\ [][NextLoad]_vars

\* ========================================================================
\* Properties
\* ========================================================================
\* the calls, from the current state
PR(u, m) == predict_rating(u, m, movie_dict, user_dict, similarities, scans)
GS(a, b) == get_similarity(a, b, movie_dict, user_dict, similarities, scans)
PRS(lines) == predict_ratings(lines, movie_dict, user_dict, similarities, scans)

NoCache == [m \in movie_dict |-> EmptyDict]
SomeCached == \E a \in movie_dict : DOMAIN similarities[a] # {}

\* C1 -- ground truth precedence: when the store holds a rating r of movie m
\* by user u, predict_rating(u, m) returns exactly r, whatever the
\* similarity caches hold.
GroundTruthPrecedence ==
    pc = "ready" =>
        \A u \in DOMAIN user_dict : \A m \in DOMAIN user_dict[u] :
            PR(u, m).out = Returned(user_dict[u][m])

\* a user rated two movies with different ratings, and the caches of both
\* movies hold entries
GroundTruthWitness ==
    \E u \in DOMAIN user_dict : \E m, k \in DOMAIN user_dict[u] :
        /\ user_dict[u][m] # user_dict[u][k]
        /\ k \in DOMAIN similarities[m]
        /\ PR(u, m).out = Returned(user_dict[u][m])

\* the quantities of the prediction formula, read off the rating table
RECURSIVE SumOver(_, _)
SumOver(S, f) ==
    IF S = {} THEN RInt(0)
    ELSE LET x == CHOOSE y \in S : TRUE IN RAdd(f[x], SumOver(S \ {x}, f))

Both(m, t) == {c \in DOMAIN user_dict : {m, t} \subseteq DOMAIN user_dict[c]}

Weight(m, t) ==
    IF Both(m, t) = {} THEN RInt(0)
    ELSE LET gap == [c \in Both(m, t) |->
                        IF RLeq(user_dict[c][t], user_dict[c][m])
                        THEN RSub(user_dict[c][m], user_dict[c][t])
                        ELSE RSub(user_dict[c][t], user_dict[c][m])]
             mean == RDiv(SumOver(Both(m, t), gap), RInt(Cardinality(Both(m, t))))
         IN  RSub(RInt(1), RDiv(mean, <<9, 2>>))

Estimate(u, t) ==
    LET rated == DOMAIN user_dict[u]
        w == [m \in rated |-> Weight(m, t)]
        wr == [m \in rated |-> RMul(w[m], user_dict[u][m])]
    IN  IF SumOver(rated, w) # RInt(0)
        THEN RDiv(SumOver(rated, wr), SumOver(rated, w))
        ELSE <<5, 2>>

\* C2 -- for a known user u and a catalog movie t that u has not rated,
\* predict_rating(u, t) returns sum(w_m * rating(u, m)) / sum(w_m) over the
\* movies m rated by u when sum(w_m) # 0, and 2.5 when sum(w_m) = 0, where
\* w_m is 0 if no user rated both m and t and otherwise
\* 1 - (mean over the co-raters c of |rating(c, m) - rating(c, t)|) / 4.5.
WeightedAveragePrediction ==
    pc = "ready" =>
        \A u \in DOMAIN user_dict : \A t \in movie_dict \ DOMAIN user_dict[u] :
            PR(u, t).out = Returned(Estimate(u, t))

\* a prediction was made for a user whose two rated movies carry different
\* ratings and different weights, one of them 0 by disagreement; and in the
\* same engine another user gets the default
WeightedAverageWitness ==
    \E u \in DOMAIN user_dict : \E t \in movie_dict \ DOMAIN user_dict[u] :
        \E m, k \in DOMAIN user_dict[u] :
            /\ user_dict[u][m] # user_dict[u][k]
            /\ Weight(m, t) = RInt(1)
            /\ Weight(k, t) = RInt(0) /\ Both(k, t) # {}
            /\ {m, k} \subseteq DOMAIN similarities[t]
            /\ PR(u, t).out = Returned(user_dict[u][m])

\* C3 -- unknown entity: predict_rating(u, m) raises BadInputError when u is
\* not in the training ratings or m is not in the catalog, and
\* get_similarity raises it for an other-movie id that is not in the
\* catalog; no rating or similarity is returned.
UnknownEntity ==
    pc = "ready" =>
        /\ \A u \in QueryUsers, m \in QueryMovies :
              (u \notin DOMAIN user_dict \/ m \notin movie_dict)
                  => PR(u, m).out = Raised("BadInputError")
        /\ \A a \in movie_dict, b \in QueryMovies \ movie_dict :
              GS(a, b).out = Raised("BadInputError")

\* with caches filled, a user and a movie are unknown and a call with each
\* of them raises
UnknownEntityWitness ==
    /\ SomeCached
    /\ \E u \in QueryUsers \ DOMAIN user_dict, m \in movie_dict :
          PR(u, m).out.kind = "BadInputError"
    /\ \E u \in DOMAIN user_dict, m \in QueryMovies \ movie_dict :
          PR(u, m).out.kind = "BadInputError"
    /\ \E a \in movie_dict, b \in QueryMovies \ movie_dict :
          GS(a, b).out.kind = "BadInputError"

\* a probe record that names an unknown user or an unknown movie
BadRecord(rec) == rec[1] \notin DOMAIN user_dict \/ rec[2] \notin movie_dict

\* C4 -- predict_ratings raises BadInputError, and nothing else, when a
\* probe record names an unknown user or an unknown movie.
BatchPropagatesUnknownEntity ==
    pc = "ready" =>
        \A lines \in ProbeFiles :
            (\E i \in DOMAIN lines : BadRecord(lines[i]))
                => PRS(lines).out = Raised("BadInputError")

\* C5 -- cache symmetry: a's cache has an entry for b exactly when b's cache
\* has one for a, the two entries are equal, and similarity(a, b) equals
\* similarity(b, a).
CacheSymmetry ==
    \A a \in movie_dict, b \in movie_dict :
        /\ (b \in DOMAIN similarities[a]) <=> (a \in DOMAIN similarities[b])
        /\ b \in DOMAIN similarities[a] => similarities[a][b] = similarities[b][a]
        /\ pc = "ready" => GS(a, b).out = GS(b, a).out

\* two different movies hold an entry for each other
CacheSymmetryWitness ==
    \E a \in movie_dict, b \in movie_dict :
        /\ a # b
        /\ b \in DOMAIN similarities[a]
        /\ a \in DOMAIN similarities[b]
        /\ similarities[a][b] # RInt(0)

\* C6 -- memoization: compute_similarity runs at most once for an unordered
\* pair of movies; a request for a pair that was computed, in either
\* direction, returns the stored value and does not scan.
Memoization ==
    \A a \in movie_dict, b \in movie_dict :
        /\ scans[{a, b}] <= 1
        /\ (scans[{a, b}] = 1 /\ pc = "ready") =>
              /\ a \in DOMAIN similarities[b]
              /\ GS(a, b).out = Returned(similarities[b][a])
              /\ GS(a, b).sc = scans
              /\ GS(a, b).sims = similarities

\* three pairs were scanned, once each
MemoizationWitness ==
    \E a \in movie_dict, b \in movie_dict, c \in movie_dict :
        /\ a # b /\ b # c /\ a # c
        /\ scans[{a, b}] = 1 /\ scans[{b, c}] = 1 /\ scans[{a, a}] = 1
        /\ GS(b, a).sc = scans

\* every rating of the table is on the half-star scale
ValidRatings ==
    \A u \in DOMAIN user_dict : \A m \in DOMAIN user_dict[u] :
        RLeq(<<1, 2>>, user_dict[u][m]) /\ RLeq(user_dict[u][m], <<5, 1>>)

\* C7 -- with every rating of the store in [0.5, 5.0], similarity(a, b) is
\* between -1/9 and 1, and is exactly 1 when there is a co-rater and every
\* co-rater gave both movies the same rating.
SimilarityBounds ==
    (pc = "ready" /\ ValidRatings) =>
        \A a \in movie_dict, b \in movie_dict :
            LET v == GS(a, b).out.val
            IN  /\ RLeq(<<-1, 9>>, v)
                /\ RLeq(v, RInt(1))
                /\ (Both(a, b) # {} /\ \A c \in Both(a, b) :
                        user_dict[c][a] = user_dict[c][b]) => v = RInt(1)

\* the caches hold the score 1 of an agreeing pair and the score 0 of a
\* pair whose co-rater is at the two ends of the scale
SimilarityBoundsWitness ==
    /\ ValidRatings
    /\ \E a \in movie_dict, b \in movie_dict :
          /\ a # b /\ Both(a, b) # {}
          /\ b \in DOMAIN similarities[a] /\ similarities[a][b] = RInt(1)
    /\ \E a \in movie_dict, b \in movie_dict :
          /\ Both(a, b) # {}
          /\ b \in DOMAIN similarities[a] /\ similarities[a][b] = RInt(0)

\* C8 -- a call leaves the catalog, the raters of every movie and the rating
\* table unchanged, and only adds entries to the similarity caches: an
\* entry stays and keeps its value.
CallsOnlyAddCacheEntries ==
    [][pc = "ready" =>
        /\ movie_dict' = movie_dict
        /\ users' = users
        /\ user_dict' = user_dict
        /\ \A a \in movie_dict : \A b \in DOMAIN similarities[a] :
              /\ b \in DOMAIN similarities'[a]
              /\ similarities'[a][b] = similarities[a][b]]_vars

\* a movie's cache holds entries for itself and for both other movies
CacheGrowthWitness ==
    \E a \in movie_dict : DOMAIN similarities[a] = movie_dict

\* the elements of a list
Range(q) == {q[i] : i \in DOMAIN q}

\* C9 -- after the constructor has read the training records, the raters of
\* a movie m are exactly the users u with ratings[u][m], each once.
RaterIndexConsistent ==
    pc = "ready" =>
        \A m \in movie_dict :
            /\ Range(users[m]) = {u \in DOMAIN user_dict : m \in DOMAIN user_dict[u]}
            /\ Len(users[m]) = Cardinality(Range(users[m]))

\* C10 -- history independence: the outcome of predict_rating(u, m) is the
\* one a fresh engine on the same store gives, in every cache state, and
\* every cache entry for (a, b) is what compute_similarity(a, b) yields.
HistoryIndependence ==
    pc = "ready" =>
        /\ \A a \in movie_dict : \A b \in DOMAIN similarities[a] :
              similarities[a][b] = compute_similarity(a, b, user_dict)
        /\ \A u \in QueryUsers, m \in QueryMovies :
              PR(u, m).out =
                  predict_rating(u, m, movie_dict, user_dict, NoCache, scans).out

\* a prediction would read a cache entry that was stored by a request in the
\* other direction, or by an earlier call, and scans nothing
HistoryIndependenceWitness ==
    \E u \in DOMAIN user_dict : \E t \in movie_dict \ DOMAIN user_dict[u] :
        /\ Cardinality(DOMAIN user_dict[u]) = 2
        /\ DOMAIN user_dict[u] \subseteq DOMAIN similarities[t]
        /\ \E m \in DOMAIN user_dict[u] : Both(m, t) # {}
        /\ PR(u, t).sc = scans
        /\ PR(u, t).out.val \notin {<<5, 2>>, <<1, 2>>, <<5, 1>>}

====
